---- MODULE Spec2Model ----
(***************************************************************************)
(* Training loop and checkpoint lifecycle of the intro-to-pytorch          *)
(* notebooks: "Part 3 - Training Neural Networks" (the SGD loop) and the   *)
(* save/load notebook that follows it (state_dict files, checkpoint        *)
(* records, load_checkpoint).                                              *)
(*                                                                         *)
(* A tensor is abstracted to its shape and a content tag [seed, upd]: the  *)
(* seed of the random initialisation that produced it and the number of    *)
(* optimizer updates applied since.  Copying a tensor copies the tag, so   *)
(* equal tags mean element-wise equal values.                              *)
(***************************************************************************)
EXTENDS Integers, Sequences, FiniteSets, TLC

VARIABLES
    model,       \* the notebook variable `model`: None or a Network
    optimizer,   \* what `optimizer` holds: "none", the parameters of "model", or "stale" ones
    files,       \* the file system: path -> content
    state_dict,  \* the notebook variable `state_dict`
    outcome,     \* the last executed cell or call and how it ended
    ran,         \* cells executed so far, where the session is bounded or ordered
    tr,          \* the activation of fc_model.train
    lp,          \* the activation of the Part 3 training loop
    nb,          \* the Part 3 kernel outside the loop: model, gradients, optimizer, loss
    loader       \* a DataLoader and the iteration over it

vars == <<model, optimizer, files, state_dict, outcome, ran, tr, lp, nb, loader>>

(***************************************************************************)
(* Bounds of the model.                                                    *)
(***************************************************************************)
MaxHidden == 2      \* longest list of hidden widths
MaxSeed == 1        \* random initialisations are drawn from 0..MaxSeed
MaxEpochs == 2      \* fc_model.train is called with epochs in 1..MaxEpochs
MaxInterval == 2    \* ... and a validation interval in 1..MaxInterval
NumBatches == 2     \* batches per epoch of the training loader
NumValBatches == 2  \* batches of the validation loader
MaxLoss == 1        \* a batch loss is abstracted to 0..MaxLoss
MaxCells == 5       \* cells executed in a session of the bare state_dict flow
MaxRuns == 2        \* times the training-loop cell is run in a session
MaxExamples == 4    \* a dataset has 1..MaxExamples examples
MaxBatchSize == 3   \* a loader is built with batch_size in 1..MaxBatchSize
MaxNbCells == 5     \* cells executed in a session of the Part 3 notebook
MaxSnapshotCells == 4  \* cells executed in a session with saves, loads and training

Seeds == 0..MaxSeed
InputSizes == {784, 3}
OutputSizes == {10, 2}
HiddenWidths == {4, 5}

RECURSIVE ListsUpTo(_, _)
ListsUpTo(S, n) ==
    IF n = 0 THEN {<<>>}
    ELSE LET shorter == ListsUpTo(S, n - 1)
         IN shorter \cup {Append(l, x) : l \in {m \in shorter : Len(m) = n - 1}, x \in S}

HiddenLists == ListsUpTo(HiddenWidths, MaxHidden) \ {<<>>}

Paths == {"checkpoint.pth"}

(***************************************************************************)
(* Values.                                                                 *)
(***************************************************************************)
None == [type |-> "None"]
Absent == [type |-> "absent"]

Fresh(seed) == [seed |-> seed, upd |-> 0]

\* nn.Linear(i, o): weight of shape (o, i), bias of shape (o).
Linear(i, o, v) == [in_features |-> i, out_features |-> o, weight |-> v, bias |-> v]

\* fc_model.Network(input_size, output_size, hidden_layers): affine layers
\* chained input -> h1 -> ... -> hn -> output; a new module is in training mode.
Network(input_size, output_size, hidden_layers, seed) ==
    LET n == Len(hidden_layers)
    IN [type |-> "Network",
        hidden_layers |->
            [k \in 1..n |->
                Linear(IF k = 1 THEN input_size ELSE hidden_layers[k - 1],
                       hidden_layers[k], Fresh(seed))],
        output |-> Linear(hidden_layers[n], output_size, Fresh(seed)),
        training |-> TRUE]

Entry(name, shape, val) == [name |-> name, shape |-> shape, val |-> val]

LinearEntries_BiasFirst(prefix, l) ==
    << Entry(Append(prefix, "bias"), <<l.out_features>>, l.bias),
       Entry(Append(prefix, "weight"), <<l.out_features, l.in_features>>, l.weight) >>

\* the two parameters of a Linear registered under `prefix`
LinearEntries(prefix, l) ==
    << Entry(Append(prefix, "weight"), <<l.out_features, l.in_features>>, l.weight),
       Entry(Append(prefix, "bias"), <<l.out_features>>, l.bias) >>

\* model.state_dict(): the ordered mapping name -> tensor,
\* hidden_layers.0.weight, hidden_layers.0.bias, ..., output.weight, output.bias.
StateDict(net) ==
    LET n == Len(net.hidden_layers)
        hid == [j \in 1..(2 * n) |->
                   LinearEntries(<<"hidden_layers", ((j + 1) \div 2) - 1>>,
                                 net.hidden_layers[(j + 1) \div 2])[2 - (j % 2)]]
    IN hid \o LinearEntries(<<"output">>, net.output)

Keys(sd) == {sd[i].name : i \in DOMAIN sd}
HasKey(sd, nm) == \E i \in DOMAIN sd : sd[i].name = nm
Get(sd, nm) == sd[CHOOSE i \in DOMAIN sd : sd[i].name = nm]

\* [each.out_features for each in model.hidden_layers]
OutFeatures(net) == [k \in DOMAIN net.hidden_layers |-> net.hidden_layers[k].out_features]

\* the (in_features, out_features) pairs of the affine layers, in order
LayerPairs(net) ==
    [k \in 1..(Len(net.hidden_layers) + 1) |->
        IF k <= Len(net.hidden_layers)
        THEN <<net.hidden_layers[k].in_features, net.hidden_layers[k].out_features>>
        ELSE <<net.output.in_features, net.output.out_features>>]

(***************************************************************************)
(* nn.Module.load_state_dict (strict): every parameter of the module whose *)
(* name is in the mapping with the same shape is copied in place; a name   *)
(* of the module missing from the mapping, a name of the mapping the       *)
(* module lacks, and a shape mismatch are collected, and any of them       *)
(* raises RuntimeError after the copying.                                  *)
(***************************************************************************)
CopyInto(l, prefix, sd) ==
    LET w == Append(prefix, "weight")
        b == Append(prefix, "bias")
    IN [l EXCEPT
          !.weight = IF HasKey(sd, w) /\ Get(sd, w).shape = <<l.out_features, l.in_features>>
                     THEN Get(sd, w).val ELSE @,
          !.bias = IF HasKey(sd, b) /\ Get(sd, b).shape = <<l.out_features>>
                   THEN Get(sd, b).val ELSE @]

LoadErrors(net, sd) ==
    LET own == StateDict(net)
    IN [missing |-> Keys(own) \ Keys(sd),
        unexpected |-> Keys(sd) \ Keys(own),
        mismatch |-> {own[i].name : i \in {j \in DOMAIN own :
                          HasKey(sd, own[j].name) /\ Get(sd, own[j].name).shape # own[j].shape}}]

LoadStateDictStatus_NotStrict(net, sd) ==
    IF LoadErrors(net, sd).mismatch = {} THEN "ok" ELSE "RuntimeError"

LoadStateDictStatus_NamesOnly(net, sd) ==
    LET e == LoadErrors(net, sd)
    IN IF e.missing = {} /\ e.unexpected = {} THEN "ok" ELSE "RuntimeError"

LoadStateDictStatus(net, sd) ==
    LET e == LoadErrors(net, sd)
    IN IF e.missing = {} /\ e.unexpected = {} /\ e.mismatch = {} THEN "ok" ELSE "RuntimeError"

LoadStateDict(net, sd) ==
    [net |-> [net EXCEPT
                !.hidden_layers = [k \in DOMAIN @ |-> CopyInto(@[k], <<"hidden_layers", k - 1>>, sd)],
                !.output = CopyInto(@, <<"output">>, sd)],
     status |-> LoadStateDictStatus(net, sd)]

(***************************************************************************)
(* Files.  torch.save pickles an object to a path; torch.load reads it     *)
(* back (a copy).  A file holds a bare state dict (an OrderedDict keyed by *)
(* parameter names) or a dict with some of the checkpoint fields.          *)
(***************************************************************************)
BareFile(sd) == [type |-> "OrderedDict", items |-> sd]
DictFile(d) == [type |-> "dict", d |-> d]

CheckpointKeys == {"input_size", "output_size", "hidden_layers", "state_dict"}

\* key in obj, for the string keys load_checkpoint looks up: a bare state dict
\* is keyed by parameter names only.
Has(obj, key) == obj.type = "dict" /\ key \in DOMAIN obj.d

\* the dictionary the save cell builds from the current `model`
Checkpoint(net) ==
    [input_size |-> 784,
     output_size |-> 10,
     hidden_layers |-> OutFeatures(net),
     state_dict |-> StateDict(net)]

Result(status, built, net) == [status |-> status, built |-> built, net |-> net]

LoadCheckpoint_Defaults(file, seed) ==
    LET d == IF file.type = "dict" THEN file.d ELSE << >>
        get(k, dflt) == IF k \in DOMAIN d THEN d[k] ELSE dflt
        fresh == Network(get("input_size", 784), get("output_size", 10),
                         get("hidden_layers", <<4>>), seed)
        r == LoadStateDict(fresh, get("state_dict", StateDict(fresh)))
    IN Result(r.status, TRUE, IF r.status = "ok" THEN r.net ELSE None)

LoadCheckpoint_Reversed(file, seed) ==
    LET rev(h) == [k \in DOMAIN h |-> h[Len(h) + 1 - k]]
    IN IF file.type = "dict" /\ CheckpointKeys \subseteq DOMAIN file.d
       THEN LET r == LoadStateDict(Network(file.d.input_size, file.d.output_size,
                                           rev(file.d.hidden_layers), seed),
                                   file.d.state_dict)
            IN Result(r.status, TRUE, IF r.status = "ok" THEN r.net ELSE None)
       ELSE Result("KeyError", FALSE, None)

\* load_checkpoint(filepath): what it raises or returns, and whether it got
\* as far as constructing a Network.
LoadCheckpoint(file, seed) ==
    IF file = Absent THEN Result("FileNotFoundError", FALSE, None)
    ELSE IF ~ Has(file, "input_size") \/ ~ Has(file, "output_size")
            \/ ~ Has(file, "hidden_layers")
         THEN Result("KeyError", FALSE, None)
    ELSE LET fresh == Network(file.d.input_size, file.d.output_size,
                              file.d.hidden_layers, seed)
         IN IF ~ Has(file, "state_dict") THEN Result("KeyError", TRUE, None)
            ELSE LET r == LoadStateDict(fresh, file.d.state_dict)
                 IN Result(r.status, TRUE, IF r.status = "ok" THEN r.net ELSE None)

(***************************************************************************)
(* The kernel's state when the save/load notebook starts.                  *)
(***************************************************************************)
Outcome(op, status, built) == [op |-> op, status |-> status, built |-> built]

TrIdle == [pc |-> "idle"]
LpIdle == [pc |-> "idle"]
NbIdle == [pc |-> "idle"]
LoaderIdle == [pc |-> "idle"]

Init ==
    /\ model = None
    /\ optimizer = "none"
    /\ files = [p \in Paths |-> Absent]
    /\ state_dict = None
    /\ outcome = Outcome("start", "ok", FALSE)
    /\ ran = 0
    /\ tr = TrIdle
    /\ lp = LpIdle
    /\ nb = NbIdle
    /\ loader = LoaderIdle

(***************************************************************************)
(* Cells of the save/load notebook, as operations on the kernel.           *)
(***************************************************************************)
\* model = fc_model.Network(...); optimizer = optim.Adam(model.parameters(), ...)
CreateNetwork(i, o, h, s) ==
    /\ model' = Network(i, o, h, s)
    /\ optimizer' = "model"
    /\ outcome' = Outcome("Network", "ok", TRUE)
    /\ UNCHANGED <<files, state_dict>>

SaveStateDict_Reordered ==
    /\ model # None
    /\ LET sd == StateDict(model)
       IN files' = [files EXCEPT !["checkpoint.pth"] =
                       BareFile([i \in DOMAIN sd |-> sd[Len(sd) + 1 - i]])]
    /\ outcome' = Outcome("save_state_dict", "ok", FALSE)
    /\ UNCHANGED <<model, optimizer, state_dict>>

\* torch.save(model.state_dict(), 'checkpoint.pth')
SaveStateDict ==
    /\ model # None
    /\ files' = [files EXCEPT !["checkpoint.pth"] = BareFile(StateDict(model))]
    /\ outcome' = Outcome("save_state_dict", "ok", FALSE)
    /\ UNCHANGED <<model, optimizer, state_dict>>

\* checkpoint = {...}; torch.save(checkpoint, 'checkpoint.pth')
SaveCheckpoint ==
    /\ model # None
    /\ files' = [files EXCEPT !["checkpoint.pth"] = DictFile(Checkpoint(model))]
    /\ outcome' = Outcome("save_checkpoint", "ok", FALSE)
    /\ UNCHANGED <<model, optimizer, state_dict>>

CallLoadCheckpoint_Shared(path, s) ==
    LET r == LoadCheckpoint(files[path], s)
    IN /\ model' = IF r.status = "ok" THEN r.net ELSE model
       /\ optimizer' = optimizer
       /\ outcome' = Outcome("load_checkpoint", r.status, r.built)
       /\ UNCHANGED <<files, state_dict>>

CallLoadCheckpoint_KeepsMode(path, s) ==
    LET r == LoadCheckpoint(files[path], s)
    IN /\ model' = IF r.status = "ok" THEN [r.net EXCEPT !.training = model.training]
                   ELSE model
       /\ optimizer' = IF r.status = "ok" /\ optimizer = "model" THEN "stale" ELSE optimizer
       /\ outcome' = Outcome("load_checkpoint", r.status, r.built)
       /\ UNCHANGED <<files, state_dict>>

\* model = load_checkpoint(filepath): `model` is rebound only if the call returns
CallLoadCheckpoint(path, s) ==
    LET r == LoadCheckpoint(files[path], s)
    IN /\ model' = IF r.status = "ok" THEN r.net ELSE model
       /\ optimizer' = IF r.status = "ok" /\ optimizer = "model" THEN "stale" ELSE optimizer
       /\ outcome' = Outcome("load_checkpoint", r.status, r.built)
       /\ UNCHANGED <<files, state_dict>>

\* A checkpoint file that some other program or session left at the path: a
\* dict with the architecture fields of one network and the parameters of
\* another, or of the same one with a field missing.
ForeignRecords ==
    LET full(a, b) == [input_size |-> 784, output_size |-> 10, hidden_layers |-> a,
                       state_dict |-> StateDict(Network(784, 10, b, 0))]
    IN {full(a, b) : a \in HiddenLists, b \in HiddenLists}
       \cup {[k \in CheckpointKeys \ {gone} |-> full(a, a)[k]] :
                a \in HiddenLists, gone \in CheckpointKeys}

WriteForeign(rec) ==
    /\ files' = [files EXCEPT !["checkpoint.pth"] = DictFile(rec)]
    /\ outcome' = Outcome("foreign", "ok", FALSE)
    /\ UNCHANGED <<model, optimizer, state_dict>>

Next ==
    /\ \/ \E i \in InputSizes, o \in OutputSizes, h \in HiddenLists, s \in Seeds :
              CreateNetwork(i, o, h, s)
       \/ SaveStateDict
       \/ SaveCheckpoint
       \/ \E p \in Paths, s \in Seeds : CallLoadCheckpoint(p, s)
    /\ UNCHANGED <<ran, tr, lp, nb, loader>>

\* the cells of the checkpoint flow, in any order, on networks of any architecture
Spec == Init /\ [][Next]_vars

NextFiles ==
    /\ \/ \E h \in HiddenLists, s \in Seeds : CreateNetwork(784, 10, h, s)
       \/ SaveStateDict
       \/ SaveCheckpoint
       \/ \E p \in Paths, s \in Seeds : CallLoadCheckpoint(p, s)
       \/ \E rec \in ForeignRecords : WriteForeign(rec)
    /\ UNCHANGED <<ran, tr, lp, nb, loader>>

\* the same cells on the notebook's 784-to-10 networks, with files of any content
SpecFiles == Init /\ [][NextFiles]_vars

(***************************************************************************)
(* Properties of the checkpoint flow (specification Spec).                 *)
(***************************************************************************)
TheFile == files["checkpoint.pth"]
Complete(file) == \A k \in CheckpointKeys : Has(file, k)
NamesAndShapes(sd) == [i \in DOMAIN sd |-> <<sd[i].name, sd[i].shape>>]
ConsecutivePairs(w) == [k \in 1..(Len(w) - 1) |-> <<w[k], w[k + 1]>>]

\* C1: round trip.  Running load_checkpoint right after the save cell has
\* saved the current model M returns a model with M's parameter names and,
\* for every name, M's value at the moment of saving.
C1_RoundTrip ==
    [][(outcome.op = "save_checkpoint" /\ outcome'.op = "load_checkpoint")
          => /\ outcome'.status = "ok"
             /\ StateDict(model') = StateDict(model)]_vars

\* C3: a load_checkpoint on a record with all four fields whose parameter
\* names differ from those of the model built from its architecture fields
\* (either way round) ends in RuntimeError; and a load that reports success
\* has given every parameter of the returned model the record's value for
\* its name.
C3_NameMismatchFails ==
    (outcome.op = "load_checkpoint" /\ Complete(TheFile)) =>
        LET d == TheFile.d
            fresh == Network(d.input_size, d.output_size, d.hidden_layers, 0)
        IN /\ Keys(d.state_dict) # Keys(StateDict(fresh)) => outcome.status = "RuntimeError"
           /\ outcome.status = "ok" =>
                 /\ Keys(StateDict(model)) = Keys(d.state_dict)
                 /\ \A i \in DOMAIN StateDict(model) :
                       StateDict(model)[i].val = Get(d.state_dict, StateDict(model)[i].name).val

C3_Witness ==
    /\ outcome.op = "load_checkpoint" /\ Complete(TheFile)
    /\ LET d == TheFile.d
           fresh == Network(d.input_size, d.output_size, d.hidden_layers, 0)
       IN Keys(d.state_dict) \ Keys(StateDict(fresh)) # {}
    /\ outcome.status = "RuntimeError"

\* C4: the record the save cell has just written is self-consistent: its
\* input_size and output_size are the saved model's input and output widths,
\* its hidden_layers are the output widths of the model's hidden layers, and
\* the names and shapes of its state_dict are those of a model constructed
\* from its three architecture fields.
C4_RecordSelfConsistent ==
    outcome.op = "save_checkpoint" =>
        LET d == TheFile.d
        IN /\ d.input_size = model.hidden_layers[1].in_features
           /\ d.output_size = model.output.out_features
           /\ d.hidden_layers = OutFeatures(model)
           /\ NamesAndShapes(d.state_dict)
                 = NamesAndShapes(StateDict(Network(d.input_size, d.output_size,
                                                    d.hidden_layers, 0)))

\* C5: the model returned by load_checkpoint for a record with hidden widths
\* [h1..hn] has n hidden layers and one output layer whose (in, out) pairs are
\* the consecutive pairs of [input_size, h1, ..., hn, output_size].
C5_ReconstructedLayers ==
    (outcome.op = "load_checkpoint" /\ outcome.status = "ok" /\ Complete(TheFile)) =>
        LET d == TheFile.d
        IN /\ Len(model.hidden_layers) = Len(d.hidden_layers)
           /\ LayerPairs(model)
                 = ConsecutivePairs(<<d.input_size>> \o d.hidden_layers \o <<d.output_size>>)

C5_Witness ==
    /\ outcome.op = "load_checkpoint" /\ outcome.status = "ok" /\ Complete(TheFile)
    /\ Len(TheFile.d.hidden_layers) = 2
    /\ Len(LayerPairs(model)) = 3

\* C7 as claimed: when a required field is absent from the file, the load ends
\* in a fatal error before any field has been used (no Network was built).
C7_ValidatesBeforeUse ==
    (outcome.op = "load_checkpoint" /\ TheFile # Absent /\ ~ Complete(TheFile)) =>
        /\ outcome.status = "KeyError"
        /\ ~ outcome.built

\* C7 as amended: when a required field is absent from the file, the load ends
\* in KeyError, `model` keeps the object it had (nothing is returned, no
\* default is substituted), and a Network has been built from the architecture
\* fields exactly when the three of them are present (only state_dict is absent).
C7_MissingFieldFatal ==
    [][(outcome'.op = "load_checkpoint" /\ TheFile # Absent /\ ~ Complete(TheFile))
          => /\ outcome'.status = "KeyError"
             /\ model' = model
             /\ outcome'.built <=> (\A k \in CheckpointKeys \ {"state_dict"} : Has(TheFile, k))]_vars

C7_Witness ==
    /\ outcome.op = "load_checkpoint"
    /\ TheFile # Absent
    /\ ~ Has(TheFile, "state_dict")
    /\ outcome.status = "KeyError"
    /\ outcome.built
    /\ model # None

\* C8: load_checkpoint on a path where no file exists ends in
\* FileNotFoundError, builds no Network, and leaves `model` and the files as
\* they were.
C8_MissingFileFatal ==
    [][(outcome'.op = "load_checkpoint" /\ \A p \in Paths : files[p] = Absent)
          => /\ outcome'.status = "FileNotFoundError"
             /\ ~ outcome'.built
             /\ model' = model
             /\ files' = files]_vars

C8_Witness ==
    /\ outcome.op = "load_checkpoint"
    /\ outcome.status = "FileNotFoundError"
    /\ model # None
    /\ TheFile = Absent

(***************************************************************************)
(* The bare state_dict flow: save the mapping, read it back into the       *)
(* variable state_dict, load it into the current model or into a newly     *)
(* built one (specification SpecStateDict).                                *)
(***************************************************************************)
\* state_dict = torch.load('checkpoint.pth')
TorchLoad ==
    /\ IF TheFile = Absent
       THEN /\ outcome' = Outcome("torch_load", "FileNotFoundError", FALSE)
            /\ UNCHANGED state_dict
       ELSE /\ outcome' = Outcome("torch_load", "ok", FALSE)
            /\ state_dict' = TheFile
    /\ UNCHANGED <<model, optimizer, files>>

\* model.load_state_dict(state_dict)
ModelLoadStateDict ==
    /\ model # None
    /\ state_dict.type = "OrderedDict"
    /\ LET r == LoadStateDict(model, state_dict.items)
       IN /\ model' = r.net
          /\ outcome' = Outcome("load_state_dict", r.status, FALSE)
    /\ UNCHANGED <<optimizer, files, state_dict>>

\* model = fc_model.Network(784, 10, [...]); model.load_state_dict(state_dict)
RebindAndLoad(h, s) ==
    /\ state_dict.type = "OrderedDict"
    /\ LET r == LoadStateDict(Network(784, 10, h, s), state_dict.items)
       IN /\ model' = r.net
          /\ outcome' = Outcome("load_state_dict", r.status, TRUE)
    /\ optimizer' = IF optimizer = "model" THEN "stale" ELSE optimizer
    /\ UNCHANGED <<files, state_dict>>

NextStateDict ==
    /\ ran < MaxCells
    /\ ran' = ran + 1
    /\ \/ \E h \in HiddenLists, s \in Seeds : CreateNetwork(784, 10, h, s)
       \/ SaveStateDict
       \/ TorchLoad
       \/ ModelLoadStateDict
       \/ \E h \in HiddenLists, s \in Seeds : RebindAndLoad(h, s)
    /\ UNCHANGED <<tr, lp, nb, loader>>

SpecStateDict == Init /\ [][NextStateDict]_vars

\* the hidden widths of the network a state dict was taken from: the lengths
\* of its hidden_layers.k.bias entries
SDHiddenWidths(sd) ==
    LET n == Cardinality({i \in DOMAIN sd : sd[i].name[1] = "hidden_layers"}) \div 2
    IN [k \in 1..n |-> Get(sd, <<"hidden_layers", k - 1, "bias">>).shape[1]]

\* C2: load_state_dict of stored parameters into a model whose hidden widths
\* differ from those of the model that produced them ends in RuntimeError;
\* a load that completes has found, for every name, the stored shape equal to
\* the model's (nothing reshaped, truncated or padded).
C2_DifferentWidthsFail ==
    outcome.op = "load_state_dict" =>
        /\ SDHiddenWidths(state_dict.items) # OutFeatures(model)
              => outcome.status = "RuntimeError"
        /\ outcome.status = "ok"
              => NamesAndShapes(StateDict(model)) = NamesAndShapes(state_dict.items)

C2_Witness ==
    /\ outcome.op = "load_state_dict"
    /\ Len(SDHiddenWidths(state_dict.items)) = Len(OutFeatures(model))
    /\ SDHiddenWidths(state_dict.items) # OutFeatures(model)
    /\ outcome.status = "RuntimeError"

\* the names of a mapping, in its order
Names(sd) == [i \in DOMAIN sd |-> sd[i].name]

\* C23: the mapping read back from a file just saved from the model has the
\* model's names in the model's order (and its values); loading a mapping
\* that was taken from the model itself succeeds and leaves every parameter
\* as it was; loading the mapping that was loaded last a second time changes
\* nothing more.
C23_SaveLoadSameModel ==
    [][/\ (outcome.op = "save_state_dict" /\ outcome'.op = "torch_load") =>
              /\ outcome'.status = "ok"
              /\ Names(state_dict'.items) = Names(StateDict(model))
              /\ state_dict'.items = StateDict(model)
       /\ (outcome'.op = "load_state_dict" /\ ~ outcome'.built
             /\ state_dict.items = StateDict(model)) =>
              /\ outcome'.status = "ok"
              /\ model' = model
       /\ (outcome'.op = "load_state_dict" /\ ~ outcome'.built
             /\ outcome.op = "load_state_dict") =>
              /\ outcome'.status = outcome.status
              /\ model' = model
      ]_vars

C23_Witness ==
    /\ ran = 5
    /\ outcome = Outcome("load_state_dict", "ok", FALSE)
    /\ state_dict.items = StateDict(model)
    /\ TheFile = state_dict

\* C25: a load_state_dict that raises leaves every parameter of the target
\* model (the current one, or the one just built for the load) with the
\* value it had before the call.
C25_FailedLoadAtomic ==
    [][(outcome'.op = "load_state_dict" /\ outcome'.status = "RuntimeError") =>
           IF outcome'.built
           THEN \E h \in HiddenLists, s \in Seeds : model' = Network(784, 10, h, s)
           ELSE model' = model
      ]_vars

(***************************************************************************)
(* fc_model.train(model, trainloader, testloader, criterion, optimizer,    *)
(* epochs, validation interval), one action per statement.  tr.pc is the   *)
(* statement about to run; nothing else runs in the kernel meanwhile.      *)
(***************************************************************************)
\* optimizer.step() on the parameters of `net`
StepLinear(l) ==
    [l EXCEPT !.weight.upd = @ + 1, !.bias.upd = @ + 1]

Updated(net) ==
    [net EXCEPT !.hidden_layers = [k \in DOMAIN @ |-> StepLinear(@[k])],
                !.output = StepLinear(@)]

Updates(net) == net.output.bias.upd
MaxUpdates == MaxEpochs * NumBatches

TrainEnter(epochs, interval) ==
    /\ tr.pc \in {"idle", "done"}
    /\ model # None
    /\ optimizer # "none"
    /\ Updates(model) + epochs * NumBatches <= MaxUpdates
    /\ tr' = [pc |-> "draw", epochs |-> epochs, interval |-> interval, e |-> 1, b |-> 0,
              steps |-> 0, vb |-> 0, loss |-> 0, running_loss |-> 0, reports |-> 0]
    /\ outcome' = Outcome("train", "running", FALSE)
    /\ UNCHANGED <<model, optimizer, files, state_dict>>

TrAt(pc) == tr.pc = pc
TrGoto(pc) == tr' = [tr EXCEPT !.pc = pc]
TrFrame == UNCHANGED <<model, optimizer, files, state_dict, outcome>>

\* the next batch of the epoch; at its end the next epoch starts over, and
\* after the last epoch train returns
TrDraw ==
    /\ TrAt("draw")
    /\ IF tr.b < NumBatches
       THEN /\ tr' = [tr EXCEPT !.b = @ + 1, !.pc = "flatten"]
            /\ UNCHANGED outcome
       ELSE IF tr.e < tr.epochs
            THEN /\ tr' = [tr EXCEPT !.e = @ + 1, !.b = 0]
                 /\ UNCHANGED outcome
            ELSE /\ tr' = [tr EXCEPT !.pc = "done"]
                 /\ outcome' = Outcome("train", "ok", FALSE)
    /\ UNCHANGED <<model, optimizer, files, state_dict>>

TrFlatten == TrAt("flatten") /\ TrGoto("zero_grad") /\ TrFrame
TrZeroGrad == TrAt("zero_grad") /\ TrGoto("forward") /\ TrFrame
TrForward == TrAt("forward") /\ TrGoto("loss") /\ TrFrame

TrLoss ==
    /\ TrAt("loss")
    /\ \E l \in 0..MaxLoss : tr' = [tr EXCEPT !.loss = l, !.pc = "backward"]
    /\ TrFrame

TrBackward == TrAt("backward") /\ TrGoto("step") /\ TrFrame

TrStep_WritesThrough ==
    /\ TrAt("step")
    /\ model' = IF optimizer = "model" THEN Updated(model) ELSE model
    /\ tr' = [tr EXCEPT !.steps = @ + 1, !.pc = "accumulate"]
    /\ files' = [files EXCEPT !["checkpoint.pth"] =
                    IF @.type = "OrderedDict" THEN BareFile(StateDict(model'))
                    ELSE IF Has(@, "state_dict")
                         THEN DictFile([@.d EXCEPT !.state_dict = StateDict(model')])
                         ELSE @]
    /\ UNCHANGED <<optimizer, state_dict, outcome>>

TrStep ==
    /\ TrAt("step")
    /\ model' = IF optimizer = "model" THEN Updated(model) ELSE model
    /\ tr' = [tr EXCEPT !.steps = @ + 1, !.pc = "accumulate"]
    /\ UNCHANGED <<optimizer, files, state_dict, outcome>>

TrAccumulate ==
    /\ TrAt("accumulate")
    /\ tr' = [tr EXCEPT !.running_loss = @ + tr.loss,
                        !.pc = IF tr.steps % tr.interval = 0 THEN "eval" ELSE "draw"]
    /\ TrFrame

\* model.eval() / model.train()
SetMode(net, training) == [net EXCEPT !.training = training]

TrEval ==
    /\ TrAt("eval")
    /\ model' = SetMode(model, FALSE)
    /\ tr' = [tr EXCEPT !.vb = 0, !.pc = "validate"]
    /\ UNCHANGED <<optimizer, files, state_dict, outcome>>

\* the validation set, batch by batch, without gradient tracking
TrValidate ==
    /\ TrAt("validate")
    /\ tr' = IF tr.vb < NumValBatches THEN [tr EXCEPT !.vb = @ + 1]
             ELSE [tr EXCEPT !.pc = "train_mode"]
    /\ TrFrame

TrTrainMode_Omitted == TrAt("train_mode") /\ TrGoto("report") /\ TrFrame

TrTrainMode ==
    /\ TrAt("train_mode")
    /\ model' = SetMode(model, TRUE)
    /\ TrGoto("report")
    /\ UNCHANGED <<optimizer, files, state_dict, outcome>>

\* the report line; the running training loss starts over
TrReport ==
    /\ TrAt("report")
    /\ tr' = [tr EXCEPT !.reports = @ + 1, !.running_loss = 0, !.pc = "draw"]
    /\ TrFrame

TrainStep ==
    \/ TrDraw \/ TrFlatten \/ TrZeroGrad \/ TrForward \/ TrLoss \/ TrBackward
    \/ TrStep \/ TrAccumulate \/ TrEval \/ TrValidate \/ TrTrainMode \/ TrReport

NextTrain ==
    /\ \/ /\ tr.pc \in {"idle", "done"}
          /\ \E h \in HiddenLists, s \in Seeds : CreateNetwork(784, 10, h, s)
          /\ UNCHANGED tr
       \/ \E n \in 1..MaxEpochs, k \in 1..MaxInterval : TrainEnter(n, k)
       \/ TrainStep
    /\ UNCHANGED <<ran, lp, nb, loader>>

SpecTrain == Init /\ [][NextTrain]_vars

\* C10: inside train, the statements of a training step (forward, loss,
\* backward, update) run with the model in training mode and the validation
\* pass with the model in evaluation mode; the model is in training mode when
\* train has returned.
C10_ModeDiscipline ==
    /\ tr.pc \in {"forward", "loss", "backward", "step"} => model.training
    /\ tr.pc = "validate" => ~ model.training
    /\ tr.pc = "done" => model.training

C10_Witness ==
    /\ tr.pc = "forward"
    /\ tr.reports > 0
    /\ model.training

(***************************************************************************)
(* The training loop of the Part 3 notebook, one action per statement:     *)
(*     for e in range(epochs):                                             *)
(*         running_loss = 0                                                *)
(*         for images, labels in trainloader:                              *)
(*             view; zero_grad; forward; loss; backward; step; +=          *)
(*         else: print(running_loss/len(trainloader))                      *)
(* lp.ops logs the statements run in the current iteration, lp.backs the   *)
(* backward passes since the gradients were last zeroed, lp.upd the        *)
(* optimizer updates applied.  lp.params and lp.grad are the parameters    *)
(* and their accumulated gradient, lp.losses the losses of the current     *)
(* epoch, lp.trace those of the whole run, lp.report the last line         *)
(* printed, lp.fails the exceptions raised, lp.prev the run before.        *)
(***************************************************************************)
Epochs == 5

\* What the seed of the random number generator decides in the cell: the
\* initial parameters of the model built at its top, and through the shuffle
\* of the loader the content of the b-th batch of epoch e.  Everything else
\* is a function of these: a parameter value is tagged with its seed and the
\* gradients applied to it, a gradient with the terms accumulated into it.
InitParams(seed) == [seed |-> seed, hist |-> <<>>]
BatchOf(seed, e, b) == ((seed + e + b) % NumBatches) + 1

\* criterion(model(images), labels): a fixed function of parameters and batch
Loss(params, batch) == ((Len(params.hist) + 1) * batch + params.seed) % (MaxLoss + 1)

\* the gradient of that loss, and loss.backward() adding it to p.grad
GradTerm(params, batch) == [batch |-> batch, at |-> Len(params.hist)]
\* p.grad is None until a backward pass has run; after that it is the sum of
\* the terms accumulated into it
NoGrad == [defined |-> FALSE, terms |-> <<>>]
Accumulate_Overwrite(grad, term) == [defined |-> TRUE, terms |-> <<term>>]
Accumulate(grad, term) == [defined |-> TRUE, terms |-> Append(grad.terms, term)]

\* optimizer.zero_grad(): a gradient that exists is set to zero
ZeroGrad(grad) == [grad EXCEPT !.terms = <<>>]

\* optimizer.step() of plain SGD: p <- p - lr * p.grad where p.grad exists
SGDStep(params, grad) ==
    IF grad.terms = <<>> THEN params ELSE [params EXCEPT !.hist = Append(@, grad.terms)]

LpAt(pc) == lp.pc = pc
LpFrame == UNCHANGED <<model, optimizer, files, state_dict, outcome, ran, tr, nb, loader>>
LpDo(op, pc) == lp' = [lp EXCEPT !.ops = Append(@, op), !.pc = pc]

LoopStart_Continues(seed) ==
    /\ lp.pc \in {"idle", "done"}
    /\ LpAt("done") => lp.run < MaxRuns
    /\ lp' = [pc |-> "epoch", e |-> 0, b |-> 0, loss |-> 0, running_loss |-> 0,
              ops |-> <<>>, backs |-> 0, upd |-> 0, printed |-> 0,
              seed |-> seed, grad |-> NoGrad, batch |-> 0,
              params |-> IF LpAt("idle") THEN InitParams(seed) ELSE lp.params,
              losses |-> <<>>, report |-> None, trace |-> <<>>, fails |-> 0,
              run |-> IF LpAt("idle") THEN 1 ELSE lp.run + 1,
              prev |-> IF LpAt("idle") THEN None
                       ELSE [seed |-> lp.seed, trace |-> lp.trace, params |-> lp.params]]
    /\ LpFrame

\* the cell up to `epochs = 5`: a new model, criterion and optimizer.  The
\* cell can be run again when it has finished; lp.prev keeps what the run
\* before it produced.
LoopStart(seed) ==
    /\ lp.pc \in {"idle", "done"}
    /\ LpAt("done") => lp.run < MaxRuns
    /\ lp' = [pc |-> "epoch", e |-> 0, b |-> 0, loss |-> 0, running_loss |-> 0,
              ops |-> <<>>, backs |-> 0, upd |-> 0, printed |-> 0,
              seed |-> seed, params |-> InitParams(seed), grad |-> NoGrad, batch |-> 0,
              losses |-> <<>>, report |-> None, trace |-> <<>>, fails |-> 0,
              run |-> IF LpAt("idle") THEN 1 ELSE lp.run + 1,
              prev |-> IF LpAt("idle") THEN None
                       ELSE [seed |-> lp.seed, trace |-> lp.trace, params |-> lp.params]]
    /\ LpFrame

LoopEpoch_NoReset ==
    /\ LpAt("epoch")
    /\ lp' = IF lp.e < Epochs
             THEN [lp EXCEPT !.e = @ + 1, !.b = 0, !.losses = <<>>, !.pc = "batch"]
             ELSE [lp EXCEPT !.pc = "done"]
    /\ LpFrame

LoopEpoch_NoRestart ==
    /\ LpAt("epoch")
    /\ lp' = IF lp.e < Epochs
             THEN [lp EXCEPT !.e = @ + 1, !.running_loss = 0, !.losses = <<>>, !.pc = "batch"]
             ELSE [lp EXCEPT !.pc = "done"]
    /\ LpFrame

\* for e in range(epochs): running_loss = 0
LoopEpoch ==
    /\ LpAt("epoch")
    /\ lp' = IF lp.e < Epochs
             THEN [lp EXCEPT !.e = @ + 1, !.b = 0, !.running_loss = 0, !.losses = <<>>,
                             !.pc = "batch"]
             ELSE [lp EXCEPT !.pc = "done"]
    /\ LpFrame

\* for images, labels in trainloader: ... else: print(running_loss/len(trainloader))
LoopBatch ==
    /\ LpAt("batch")
    /\ lp' = IF lp.b < NumBatches
             THEN [lp EXCEPT !.b = @ + 1, !.batch = BatchOf(lp.seed, lp.e, lp.b + 1),
                             !.ops = <<"batch">>, !.pc = "flatten"]
             ELSE [lp EXCEPT !.ops = <<>>, !.printed = @ + 1, !.pc = "epoch",
                     !.report = [total |-> lp.running_loss, divisor |-> NumBatches,
                                 losses |-> lp.losses]]
    /\ LpFrame

LoopFlatten == LpAt("flatten") /\ LpDo("flatten", "zero_grad") /\ LpFrame

LoopZeroGrad_Forgotten == LpAt("zero_grad") /\ lp' = [lp EXCEPT !.pc = "forward"] /\ LpFrame

LoopZeroGrad ==
    /\ LpAt("zero_grad")
    /\ lp' = [lp EXCEPT !.ops = Append(@, "zero_grad"), !.backs = 0,
                        !.grad = ZeroGrad(@), !.pc = "forward"]
    /\ LpFrame

LoopForward == LpAt("forward") /\ LpDo("forward", "loss") /\ LpFrame

LoopLoss ==
    /\ LpAt("loss")
    /\ lp' = [lp EXCEPT !.ops = Append(@, "loss"), !.loss = Loss(lp.params, lp.batch),
                        !.pc = "backward"]
    /\ LpFrame

LoopBackward_InPlace ==
    /\ LpAt("backward")
    /\ lp' = [lp EXCEPT !.ops = Append(@, "backward"), !.backs = @ + 1,
                        !.grad = Accumulate(@, GradTerm(lp.params, lp.batch)),
                        !.params = SGDStep(@, Accumulate(NoGrad, GradTerm(lp.params, lp.batch))),
                        !.pc = "step"]
    /\ LpFrame

LoopBackward ==
    /\ LpAt("backward")
    /\ lp' = [lp EXCEPT !.ops = Append(@, "backward"), !.backs = @ + 1,
                        !.grad = Accumulate(@, GradTerm(lp.params, lp.batch)),
                        !.pc = "step"]
    /\ LpFrame

LoopStep ==
    /\ LpAt("step")
    /\ lp' = [lp EXCEPT !.ops = Append(@, "step"), !.upd = @ + 1,
                        !.params = SGDStep(@, lp.grad), !.pc = "accumulate"]
    /\ LpFrame

LoopAccumulate ==
    /\ LpAt("accumulate")
    /\ lp' = [lp EXCEPT !.ops = Append(@, "accumulate"),
                        !.running_loss = @ + lp.loss,
                        !.losses = Append(@, lp.loss),
                        !.trace = Append(@, lp.loss),
                        !.pc = "batch"]
    /\ LpFrame

FailPoints == {"forward", "loss", "backward", "step"}

LoopFail_Retry ==
    /\ lp.pc \in FailPoints
    /\ lp' = [lp EXCEPT !.fails = @ + 1, !.pc = "forward"]
    /\ LpFrame

\* the statement about to run raises: nothing in the cell catches it, so it
\* leaves both loops and ends the cell
LoopFail ==
    /\ lp.pc \in FailPoints
    /\ lp' = [lp EXCEPT !.fails = @ + 1, !.pc = "failed"]
    /\ LpFrame

NextLoop ==
    \/ \E s \in Seeds : LoopStart(s)
    \/ LoopEpoch \/ LoopBatch \/ LoopFlatten \/ LoopZeroGrad \/ LoopForward
    \/ LoopLoss \/ LoopBackward \/ LoopStep \/ LoopAccumulate \/ LoopFail

SpecLoop == Init /\ [][NextLoop]_vars

\* the loop when no statement raises; the kernel runs a started cell to its
\* end, one statement after the other
NextLoopRun ==
    \/ \E s \in Seeds : LoopStart(s)
    \/ LoopEpoch \/ LoopBatch \/ LoopFlatten \/ LoopZeroGrad \/ LoopForward
    \/ LoopLoss \/ LoopBackward \/ LoopStep \/ LoopAccumulate

SpecLoopRun == Init /\ [][NextLoopRun]_vars /\ WF_vars(NextLoopRun)

IterationOrder ==
    <<"batch", "flatten", "zero_grad", "forward", "loss", "backward", "step", "accumulate">>

IsPrefix(a, b) == Len(a) <= Len(b) /\ \A i \in DOMAIN a : a[i] = b[i]

\* C9: the statements of an iteration run in the order batch, flatten,
\* zero_grad, forward, loss, backward, step, accumulate, each once: the log of
\* the current iteration is always a prefix of that order, reaches the loop
\* header only when complete, and right after an optimizer update exactly one
\* backward pass has run since the gradients were last zeroed.
C9_IterationOrder ==
    LpAt("idle") \/
        /\ IsPrefix(lp.ops, IterationOrder)
        /\ LpAt("batch") => lp.ops \in {<<>>, IterationOrder}
        /\ LpAt("accumulate") => /\ lp.backs = 1
                                 /\ lp.upd = (lp.e - 1) * NumBatches + lp.b

C9_Witness ==
    /\ LpAt("batch")
    /\ lp.ops = IterationOrder
    /\ lp.e = 2

RECURSIVE SumSeq(_)
SumSeq(q) == IF q = <<>> THEN 0 ELSE q[1] + SumSeq(Tail(q))

Count(q, x) == Cardinality({i \in DOMAIN q : q[i] = x})

\* steps of the run that ran to their end before the current one
StepsBefore == (lp.e - 1) * NumBatches + (lp.b - 1)

\* C11: when the forward pass, the loss, the backward pass or the update of a
\* step raises, the cell is over: the loop is left at that statement for good
\* (no later statement runs, nothing is tried again, so one failure is the
\* only one), and the parameters carry exactly the updates of the steps
\* completed before the failing one.
C11_FailureAborts ==
    LpAt("idle") \/ lp.fails = 0 \/
        /\ LpAt("failed")
        /\ lp.fails = 1
        /\ lp.upd = StepsBefore
        /\ Len(lp.params.hist) = StepsBefore
        /\ Len(lp.trace) = StepsBefore

C11_Witness ==
    /\ LpAt("failed")
    /\ lp.e = 2 /\ lp.b = 2
    /\ lp.ops[Len(lp.ops)] = "backward"
    /\ lp.upd = NumBatches + 1

\* C21: when nothing fails the loop terminates, after exactly
\* Epochs x NumBatches optimizer updates: a started run always reaches its
\* end; every epoch passes over the batches once from the first to the last
\* (the pass starts over at each epoch), so that at the end of epoch e
\* exactly e x NumBatches steps have been taken.
C21_Terminates ==
    /\ [](LpAt("idle") \/
            /\ lp.b \in 0..NumBatches
            /\ LpAt("epoch") => lp.upd = lp.e * NumBatches /\ Len(lp.trace) = lp.e * NumBatches
            /\ LpAt("batch") => lp.upd = (lp.e - 1) * NumBatches + lp.b
            /\ LpAt("done") => lp.e = Epochs /\ lp.upd = Epochs * NumBatches)
    /\ (LpAt("epoch") /\ lp.e = 0) ~> (LpAt("done") /\ lp.upd = Epochs * NumBatches)

C21_Witness ==
    /\ LpAt("done")
    /\ lp.run = 2
    /\ lp.upd = Epochs * NumBatches
    /\ Len(lp.params.hist) = Epochs * NumBatches
    /\ lp.printed = Epochs

C16_EpochReport ==
    LpAt("idle") \/
        /\ lp.printed = IF lp.pc \in {"epoch", "done"} THEN lp.e ELSE lp.e - 1
        /\ lp.printed > 0 =>
              /\ lp.report.losses =
                    SubSeq(lp.trace, (lp.printed - 1) * NumBatches + 1, lp.printed * NumBatches)
              /\ lp.report.total = SumSeq(lp.report.losses)
              /\ lp.report.divisor = Len(lp.report.losses)

C16_Witness ==
    /\ LpAt("epoch")
    /\ lp.printed = 2
    /\ lp.report.total > 0
    /\ SumSeq(lp.trace) > lp.report.total

\* C17: at every optimizer update of the loop the accumulated gradient is the
\* gradient of the current batch's loss at the current parameters and nothing
\* else: since the previous update the gradients were zeroed once and one
\* backward pass ran, and the update applies exactly that gradient.
C17_GradientOfCurrentBatch ==
    /\ LpAt("step") =>
          /\ lp.grad = Accumulate(NoGrad, GradTerm(lp.params, lp.batch))
          /\ Count(lp.ops, "zero_grad") = 1
          /\ Count(lp.ops, "backward") = 1
    /\ LpAt("accumulate") =>
          lp.params.hist[Len(lp.params.hist)] =
              <<[batch |-> lp.batch, at |-> Len(lp.params.hist) - 1]>>

C17_Witness ==
    /\ LpAt("accumulate")
    /\ lp.upd = NumBatches + 1
    /\ lp.params.hist[Len(lp.params.hist)] = <<[batch |-> lp.batch, at |-> NumBatches]>>

\* C19: inside the loop only optimizer.step() changes a parameter value:
\* drawing a batch, flattening, zero_grad, the forward pass, the loss, the
\* backward pass, the accumulation of the loss and the report leave the
\* parameters as they are.
C19_OnlyStepChangesParams ==
    [][(lp.pc \notin {"idle", "done", "step"}) => lp'.params = lp.params]_vars

C19_Witness ==
    /\ LpAt("batch")
    /\ lp.ops = IterationOrder
    /\ lp.e = Epochs
    /\ Len(lp.params.hist) = (Epochs - 1) * NumBatches + lp.b

(***************************************************************************)
(* The data loader (specification SpecLoader):                             *)
(*     trainloader = DataLoader(trainset, batch_size=64, shuffle=True)     *)
(* over a dataset of n examples 1..n.  iter() draws a new random order,    *)
(* next() hands out the next batch_size examples of it, or what is left    *)
(* of them (drop_last is not set), and raises StopIteration after the      *)
(* last.  loader.batches lists the batches handed out in this pass.        *)
(***************************************************************************)
Orders(n) ==
    {f \in [1..n -> 1..n] : \A i, j \in 1..n : f[i] = f[j] => i = j}

\* len(trainloader)
LoaderLen(n, size) == (n + size - 1) \div size

LoaderFrame == UNCHANGED <<model, optimizer, files, state_dict, outcome, ran, tr, lp, nb>>

DataLoader(n, size) ==
    /\ loader.pc \in {"idle", "exhausted"}
    /\ loader' = [pc |-> "ready", n |-> n, size |-> size, order |-> <<>>, pos |-> 0,
                  batches |-> <<>>, flat |-> None]
    /\ LoaderFrame

\* for ... in trainloader: a pass starts with a fresh shuffle
LoaderIter ==
    /\ loader.pc \in {"ready", "exhausted"}
    /\ \E order \in Orders(loader.n) :
          loader' = [loader EXCEPT !.pc = "iterating", !.order = order, !.pos = 0,
                                   !.batches = <<>>, !.flat = None]
    /\ LoaderFrame

LoaderNext_DropLast ==
    /\ loader.pc = "iterating"
    /\ loader' =
          IF loader.pos + loader.size <= loader.n
          THEN [loader EXCEPT !.pos = @ + loader.size,
                  !.batches = Append(@, SubSeq(loader.order, loader.pos + 1,
                                               loader.pos + loader.size))]
          ELSE [loader EXCEPT !.pc = "exhausted"]
    /\ LoaderFrame

LoaderNext ==
    /\ loader.pc = "iterating"
    /\ loader' =
          IF loader.pos < loader.n
          THEN LET upto == IF loader.pos + loader.size <= loader.n
                           THEN loader.pos + loader.size ELSE loader.n
               IN [loader EXCEPT !.pos = upto,
                     !.batches = Append(@, SubSeq(loader.order, loader.pos + 1, upto))]
          ELSE [loader EXCEPT !.pc = "exhausted"]
    /\ LoaderFrame

NextLoader ==
    \/ \E n \in 1..MaxExamples, size \in 1..MaxBatchSize : DataLoader(n, size)
    \/ LoaderIter
    \/ LoaderNext

SpecLoader == Init /\ [][NextLoader]_vars

\* how often example x was handed out in the batches
Appearances(batches, x) ==
    Cardinality({<<k, i>> \in (DOMAIN batches) \X (1..MaxExamples + 1) :
                    i \in DOMAIN batches[k] /\ batches[k][i] = x})

EveryExampleOnce ==
    \A x \in 1..loader.n : Appearances(loader.batches, x) = 1

\* C14 as stated: in a finished pass every example was in exactly one batch
\* and every batch, the last included, has batch_size examples.
C14_AllBatchesFull ==
    loader.pc = "exhausted" =>
        /\ EveryExampleOnce
        /\ \A k \in DOMAIN loader.batches : Len(loader.batches[k]) = loader.size

\* C14, amended: in a finished pass every example was in exactly one batch;
\* there are ceil(n / batch_size) batches, all of batch_size examples except
\* the last, which holds the n mod batch_size examples left over when that
\* is not zero.
C14_BatchesPartition ==
    loader.pc = "exhausted" =>
        /\ EveryExampleOnce
        /\ Len(loader.batches) = LoaderLen(loader.n, loader.size)
        /\ \A k \in DOMAIN loader.batches :
              Len(loader.batches[k]) =
                  IF k < Len(loader.batches) \/ loader.n % loader.size = 0
                  THEN loader.size ELSE loader.n % loader.size

C14_Witness ==
    /\ loader.pc = "exhausted"
    /\ loader.n % loader.size # 0
    /\ Len(loader.batches) = 2
    /\ Len(loader.batches[2]) < loader.size

(***************************************************************************)
(* Flattening a batch for the model (specification SpecFlatten).  A batch  *)
(* of k examples is an images tensor of shape (k, 1, 28, 28) and k labels. *)
(* The loop flattens with images.view(images.shape[0], -1); the            *)
(* single-step cell takes the first batch of a new pass and flattens it in *)
(* place with images.resize_(64, 784), 64 being the batch_size the loader  *)
(* was built with.  loader.flat is the shape handed to the model and the   *)
(* number of labels that go with it.                                       *)
(***************************************************************************)
ImageShape(k) == <<k, 1, 28, 28>>

RECURSIVE Numel(_)
Numel(shape) == IF shape = <<>> THEN 1 ELSE shape[1] * Numel(Tail(shape))

\* t.view(rows, -1): the second dimension is what is left of the elements
View(shape, rows) == <<rows, Numel(shape) \div rows>>

\* t.resize_(rows, cols): the shape asked for, whatever the tensor held
Resize(shape, rows, cols) == <<rows, cols>>

LastBatch == loader.batches[Len(loader.batches)]

\* images = images.view(images.shape[0], -1)
FlattenView ==
    /\ loader.pc = "iterating"
    /\ loader.batches # <<>>
    /\ LET images == ImageShape(Len(LastBatch))
       IN loader' = [loader EXCEPT !.flat = [via |-> "view", shape |-> View(images, images[1]),
                                             labels |-> Len(LastBatch)]]
    /\ LoaderFrame

\* images, labels = next(iter(trainloader)); images.resize_(64, 784)
FlattenResize ==
    /\ loader.pc = "iterating"
    /\ Len(loader.batches) = 1
    /\ loader' = [loader EXCEPT
                    !.flat = [via |-> "resize_",
                              shape |-> Resize(ImageShape(Len(LastBatch)), loader.size, 784),
                              labels |-> Len(LastBatch)]]
    /\ LoaderFrame

NextFlatten ==
    \/ \E n \in 1..MaxExamples, size \in 1..MaxBatchSize : DataLoader(n, size)
    \/ LoaderIter
    \/ LoaderNext
    \/ FlattenView
    \/ FlattenResize

SpecFlatten == Init /\ [][NextFlatten]_vars

\* C22: whatever batch is flattened, by either form, the model gets as many
\* rows as the batch has labels, and 784 columns.
C22_FlattenPreservesSamples ==
    (loader.pc # "idle" /\ loader.flat # None) =>
        loader.flat.shape = <<loader.flat.labels, 784>>

(***************************************************************************)
(* The cells of the Part 3 notebook around the loop (specification         *)
(* SpecCells), run in any order once a model exists.  nb holds the kernel: *)
(* the layers of `model` and the cell that built it, `criterion`, the      *)
(* parameters and their accumulated gradient, what `optimizer` was built   *)
(* over ("model", or "stale" parameters of a model since replaced), and    *)
(* `loss` (the term its backward pass would add, and whether its graph is  *)
(* still there).  nb.last is the last cell run and how it ended.           *)
(***************************************************************************)
Lin(i, o) == [type |-> "Linear", in_features |-> i, out_features |-> o]
ReLU == [type |-> "ReLU"]
LogSoftmax == [type |-> "LogSoftmax", dim |-> 1]

\* nn.Sequential(...) of the first cell, which hands logits to CrossEntropyLoss
SequentialLogits == <<Lin(784, 128), ReLU, Lin(128, 64), ReLU, Lin(64, 10)>>
\* ... and of the later cells, trained with NLLLoss
SequentialLogProbs == Append(SequentialLogits, LogSoftmax)

\* the parameters the loop cell ends with after k steps, and the gradient
\* left by its last backward pass
RECURSIVE ParamsAfter(_, _)
StepBatch(seed, k) ==
    BatchOf(seed, ((k - 1) \div NumBatches) + 1, ((k - 1) % NumBatches) + 1)
StepGradAt(params, seed, k) == Accumulate(NoGrad, GradTerm(params, StepBatch(seed, k)))
ParamsAfter(seed, k) ==
    IF k = 0 THEN InitParams(seed)
    ELSE LET before == ParamsAfter(seed, k - 1)
         IN SGDStep(before, StepGradAt(before, seed, k))
StepGrad(seed, k) == StepGradAt(ParamsAfter(seed, k - 1), seed, k)

NbFrame == UNCHANGED <<model, optimizer, files, state_dict, outcome, tr, lp, loader>>
NbLive == nb.pc = "live"
Last(cell, status) == [cell |-> cell, status |-> status]
Graph(params, batch) == [term |-> GradTerm(params, batch), graph |-> TRUE]

\* model = nn.Sequential(...); criterion = ...; a batch; logits; loss
Build(cell, layers, criterion, seed, batch) ==
    nb' = [pc |-> "live", model |-> layers, built_by |-> cell, criterion |-> criterion,
           params |-> InitParams(seed), grad |-> NoGrad,
           opt |-> IF NbLive /\ nb.opt # "none" THEN "stale" ELSE "none",
           loss |-> Graph(InitParams(seed), batch),
           last |-> Last(cell, "ok")]

CellLogits_LogSoftmax(seed, batch) ==
    Build("logits", SequentialLogProbs, "CrossEntropyLoss", seed, batch) /\ NbFrame

CellLogits(seed, batch) ==
    Build("logits", SequentialLogits, "CrossEntropyLoss", seed, batch) /\ NbFrame

CellLogProbs(seed, batch) ==
    Build("logprobs", SequentialLogProbs, "NLLLoss", seed, batch) /\ NbFrame

CellBuild(seed, batch) ==
    Build("build", SequentialLogProbs, "NLLLoss", seed, batch) /\ NbFrame

\* loss.backward(): adds the gradient to p.grad and frees the graph; a second
\* backward pass through a freed graph raises
CellBackward ==
    /\ NbLive
    /\ nb' = IF nb.loss.graph
             THEN [nb EXCEPT !.grad = Accumulate(@, nb.loss.term), !.loss.graph = FALSE,
                             !.last = Last("backward", "ok")]
             ELSE [nb EXCEPT !.last = Last("backward", "RuntimeError")]
    /\ NbFrame

\* optimizer = optim.SGD(model.parameters(), lr=0.01)
CellOptimizer ==
    /\ NbLive
    /\ nb' = [nb EXCEPT !.opt = "model", !.last = Last("optimizer", "ok")]
    /\ NbFrame

\* a batch; optimizer.zero_grad(); output; loss; loss.backward()
CellStepPrep(batch) ==
    /\ NbLive
    /\ nb' = IF nb.opt = "none"
             THEN [nb EXCEPT !.last = Last("step_prep", "NameError")]
             ELSE LET zeroed == IF nb.opt = "model" THEN ZeroGrad(nb.grad) ELSE nb.grad
                      fresh == Graph(nb.params, batch)
                  IN [nb EXCEPT !.grad = Accumulate(zeroed, fresh.term),
                                !.loss = [fresh EXCEPT !.graph = FALSE],
                                !.last = Last("step_prep", "ok")]
    /\ NbFrame

\* optimizer.step()
CellStep ==
    /\ NbLive
    /\ nb' = CASE nb.opt = "none" -> [nb EXCEPT !.last = Last("step", "NameError")]
               [] nb.opt = "stale" -> [nb EXCEPT !.last = Last("step", "ok")]
               [] nb.opt = "model" -> [nb EXCEPT !.params = SGDStep(@, nb.grad),
                                                 !.last = Last("step", "ok")]
    /\ NbFrame

\* the training cell from top to bottom: a new model, criterion and
\* optimizer, and Epochs passes over the loader
CellTrainingLoop(seed) ==
    LET steps == Epochs * NumBatches IN
    /\ nb' = [pc |-> "live", model |-> SequentialLogProbs, built_by |-> "loop",
              criterion |-> "NLLLoss", params |-> ParamsAfter(seed, steps),
              grad |-> StepGrad(seed, steps), opt |-> "model",
              loss |-> [term |-> StepGrad(seed, steps).terms[1], graph |-> FALSE],
              last |-> Last("loop", "ok")]
    /\ NbFrame

CellInference_Tracked(batch) ==
    /\ NbLive
    /\ nb' = [nb EXCEPT !.grad = Accumulate(@, GradTerm(nb.params, batch)),
                        !.last = Last("inference", "ok")]
    /\ NbFrame

\* a batch; with torch.no_grad(): logps = model(img)
CellInference(batch) ==
    /\ NbLive
    /\ nb' = [nb EXCEPT !.last = Last("inference", "ok")]
    /\ NbFrame

NextCells ==
    /\ ran < MaxNbCells
    /\ ran' = ran + 1
    /\ \/ \E s \in Seeds, k \in 1..NumBatches : CellLogits(s, k)
       \/ \E s \in Seeds, k \in 1..NumBatches : CellLogProbs(s, k)
       \/ \E s \in Seeds, k \in 1..NumBatches : CellBuild(s, k)
       \/ CellBackward
       \/ CellOptimizer
       \/ \E k \in 1..NumBatches : CellStepPrep(k)
       \/ CellStep
       \/ \E s \in Seeds : CellTrainingLoop(s)
       \/ \E k \in 1..NumBatches : CellInference(k)

SpecCells == Init /\ [][NextCells]_vars

\* positions of the affine layers of a stack
Affines(layers) == {i \in DOMAIN layers : layers[i].type = "Linear"}
LastAffine(layers) == CHOOSE i \in Affines(layers) : \A j \in Affines(layers) : j <= i

\* an ordered stack of affine layers whose widths chain, a nonlinearity
\* after each of them but the last, and nothing but a final log-softmax
\* after the last
IsLayerStack(layers) ==
    /\ Affines(layers) # {}
    /\ layers[1].type = "Linear"
    /\ \A i \in Affines(layers) :
          i < LastAffine(layers) =>
              /\ layers[i + 1].type = "ReLU"
              /\ layers[i + 2].type = "Linear"
              /\ layers[i + 2].in_features = layers[i].out_features
    /\ Len(layers) <= LastAffine(layers) + 1

EndsInLogSoftmax(layers) ==
    /\ layers[Len(layers)].type = "LogSoftmax"
    /\ layers[Len(layers)].dim = 1

\* C15 as stated: every model of the notebook is such a stack and ends in a
\* log-softmax over the class dimension.
C15_AllEndInLogSoftmax ==
    NbLive => IsLayerStack(nb.model) /\ EndsInLogSoftmax(nb.model)

\* C15, amended: every model of the notebook is such a stack; the model of
\* the first cell ends with its last affine layer and hands raw scores to
\* CrossEntropyLoss, every other model ends in a log-softmax over the class
\* dimension and is trained with NLLLoss.
C15_LayerStack ==
    NbLive =>
        /\ IsLayerStack(nb.model)
        /\ IF nb.built_by = "logits"
           THEN /\ LastAffine(nb.model) = Len(nb.model)
                /\ nb.criterion = "CrossEntropyLoss"
           ELSE /\ EndsInLogSoftmax(nb.model)
                /\ nb.criterion = "NLLLoss"

C15_Witness ==
    /\ NbLive
    /\ nb.built_by = "logits"
    /\ nb.model[Len(nb.model)] = Lin(64, 10)
    /\ nb.last.cell = "backward"

\* C18: a parameter has no gradient from the construction of its model until
\* a backward pass has run; a backward pass appends its term to what is
\* accumulated (so k passes without zeroing leave the k terms); zero_grad by
\* the model's optimizer followed by a backward pass leaves that pass's term
\* alone; no other cell touches the gradient.
C18_GradientLifecycle ==
    [][nb'.pc = "live" =>
        /\ nb'.last.cell \in {"logits", "logprobs", "build"} =>
              ~ nb'.grad.defined /\ nb'.grad.terms = <<>>
        /\ nb'.last = Last("backward", "ok") =>
              nb'.grad.defined /\ nb'.grad.terms = Append(nb.grad.terms, nb.loss.term)
        /\ nb'.last = Last("step_prep", "ok") =>
              /\ nb'.grad.defined
              /\ nb'.grad.terms =
                    IF nb.opt = "model" THEN <<nb'.loss.term>>
                    ELSE Append(nb.grad.terms, nb'.loss.term)
        /\ (nb'.last.cell \in {"optimizer", "step", "inference"} \/ nb'.last.status # "ok") =>
              nb'.grad = nb.grad
      ]_vars

C18_Witness ==
    /\ NbLive
    /\ Len(nb.grad.terms) = 2
    /\ nb.last = Last("step_prep", "ok")

NotebookCell ==
    \/ ran = 0 /\ \E s \in Seeds : CreateNetwork(784, 10, <<512, 256, 128>>, s) /\ UNCHANGED tr
    \/ ran = 1 /\ \E k \in 1..MaxInterval : TrainEnter(2, k)
    \/ ran = 2 /\ SaveStateDict /\ UNCHANGED tr
    \/ ran = 3 /\ TorchLoad /\ UNCHANGED tr
    \/ ran = 4 /\ ModelLoadStateDict /\ UNCHANGED tr
    \/ ran = 5 /\ \E s \in Seeds : RebindAndLoad(<<400, 200, 100>>, s) /\ UNCHANGED tr
    \/ ran = 6 /\ SaveCheckpoint /\ UNCHANGED tr
    \/ ran = 7 /\ \E s \in Seeds : CallLoadCheckpoint("checkpoint.pth", s) /\ UNCHANGED tr

NextNotebook ==
    \/ /\ tr.pc \in {"idle", "done"}
       /\ NotebookCell
       /\ ran' = ran + 1
       /\ UNCHANGED <<lp, nb, loader>>
    \/ TrainStep /\ UNCHANGED <<ran, lp, nb, loader>>

SpecNotebook == Init /\ [][NextNotebook]_vars

\* C6: after the last cell of the notebook run top to bottom, the model that
\* load_checkpoint('checkpoint.pth') returned has the hidden widths
\* [512, 256, 128] and the parameter values of the trained model (those that
\* were saved after training and read back into state_dict).
C6_CheckpointIsTrainedModel ==
    (ran = 8 /\ outcome.op = "load_checkpoint") =>
        /\ outcome.status = "ok"
        /\ OutFeatures(model) = <<512, 256, 128>>
        /\ StateDict(model) = state_dict.items


(***************************************************************************)
(* A session of the save/load notebook in any order, training included     *)
(* (specification SpecSnapshot): a cell runs when the kernel is idle, and   *)
(* a call of fc_model.train runs to its end before the next cell.          *)
(***************************************************************************)
SnapshotCell ==
    \/ \E w \in HiddenWidths, s \in Seeds : CreateNetwork(784, 10, <<w>>, s) /\ UNCHANGED tr
    \/ SaveStateDict /\ UNCHANGED tr
    \/ SaveCheckpoint /\ UNCHANGED tr
    \/ TorchLoad /\ UNCHANGED tr
    \/ \E s \in Seeds : CallLoadCheckpoint("checkpoint.pth", s) /\ UNCHANGED tr
    \/ \E n \in 1..MaxEpochs, k \in 1..MaxInterval : TrainEnter(n, k)

NextSnapshot ==
    \/ /\ tr.pc \in {"idle", "done"}
       /\ ran < MaxSnapshotCells
       /\ SnapshotCell
       /\ ran' = ran + 1
       /\ UNCHANGED <<lp, nb, loader>>
    \/ TrainStep /\ UNCHANGED <<ran, lp, nb, loader>>

SpecSnapshot == Init /\ [][NextSnapshot]_vars

\* C26: what is at the path changes only when a save cell runs (an optimizer
\* update, a load or a new model leaves it alone); a save replaces it by
\* what the current model holds at that moment, whatever was there before;
\* torch.load returns what is at the path and load_checkpoint builds its
\* model from it, so a load returns the most recent save as it was made.
C26_Snapshot ==
    [][/\ outcome'.op \notin {"save_state_dict", "save_checkpoint"} => files' = files
       /\ (ran' # ran /\ outcome'.op = "save_state_dict") =>
              files' = [p \in Paths |-> BareFile(StateDict(model))]
       /\ (ran' # ran /\ outcome'.op = "save_checkpoint") =>
              files' = [p \in Paths |-> DictFile(Checkpoint(model))]
       /\ (ran' # ran /\ outcome'.op = "torch_load" /\ outcome'.status = "ok") =>
              state_dict' = TheFile
       /\ (ran' # ran /\ outcome'.op = "load_checkpoint" /\ outcome'.status = "ok") =>
              StateDict(model') = TheFile.d.state_dict
      ]_vars

\* the mapping just read from the file is the current model's as it was
\* before the optimizer updated it
C26_Witness ==
    /\ outcome = Outcome("torch_load", "ok", FALSE)
    /\ state_dict.type = "OrderedDict"
    /\ optimizer = "model"
    /\ tr.pc = "done"
    /\ Updates(model) = tr.steps
    /\ tr.steps > 0
    /\ state_dict.items # StateDict(model)
    /\ state_dict.items =
          StateDict(Network(784, 10, OutFeatures(model), model.output.bias.seed))


(***************************************************************************)
(* Reloading a trained model (specification SpecReload): the model is      *)
(* built and trained, the caller puts it in evaluation mode for inference, *)
(* saves the checkpoint, reads it back with load_checkpoint and calls      *)
(* fc_model.train again with the optimizer made in the first cell.         *)
(***************************************************************************)
\* model.eval()
ModelEval ==
    /\ model # None
    /\ model' = SetMode(model, FALSE)
    /\ outcome' = Outcome("eval", "ok", FALSE)
    /\ UNCHANGED <<optimizer, files, state_dict>>

ReloadCell ==
    \/ ran = 0 /\ \E h \in HiddenLists, s \in Seeds : CreateNetwork(784, 10, h, s) /\ UNCHANGED tr
    \/ ran = 1 /\ \E n \in 1..MaxEpochs, k \in 1..MaxInterval : TrainEnter(n, k)
    \/ ran = 2 /\ ModelEval /\ UNCHANGED tr
    \/ ran = 3 /\ SaveCheckpoint /\ UNCHANGED tr
    \/ ran = 4 /\ \E s \in Seeds : CallLoadCheckpoint("checkpoint.pth", s) /\ UNCHANGED tr
    \/ ran = 5 /\ \E n \in 1..MaxEpochs, k \in 1..MaxInterval : TrainEnter(n, k)

NextReload ==
    \/ /\ tr.pc \in {"idle", "done"}
       /\ ReloadCell
       /\ ran' = ran + 1
       /\ UNCHANGED <<lp, nb, loader>>
    \/ TrainStep /\ UNCHANGED <<ran, lp, nb, loader>>

SpecReload == Init /\ [][NextReload]_vars

\* C24: a model with n hidden widths exposes exactly 2(n+1) parameters, named
\* hidden_layers.i.weight, hidden_layers.i.bias for i = 0..n-1 and then
\* output.weight, output.bias, in that order, whether it was just built,
\* trained, switched to evaluation mode or returned by load_checkpoint; any
\* model built from the same widths has the same ordered names and the same
\* shape per name.
C24_NamesFromArchitecture ==
    model # None =>
        LET sd == StateDict(model)
            n == Len(model.hidden_layers)
        IN /\ Len(sd) = 2 * (n + 1)
           /\ \A i \in 0..(n - 1) :
                 /\ sd[2 * i + 1].name = <<"hidden_layers", i, "weight">>
                 /\ sd[2 * i + 2].name = <<"hidden_layers", i, "bias">>
           /\ sd[2 * n + 1].name = <<"output", "weight">>
           /\ sd[2 * n + 2].name = <<"output", "bias">>
           /\ \A s \in Seeds :
                 NamesAndShapes(StateDict(Network(784, 10, OutFeatures(model), s)))
                     = NamesAndShapes(sd)

\* a trained two-hidden-layer model read back from its checkpoint
C24_Witness ==
    /\ outcome = Outcome("load_checkpoint", "ok", TRUE)
    /\ Len(model.hidden_layers) = 2
    /\ model.hidden_layers[1].out_features # model.hidden_layers[2].out_features
    /\ Updates(model) > 0
    /\ Names(StateDict(model)) = Names(TheFile.d.state_dict)

C28_ModeNotInCheckpoint ==
    /\ ran \in 3..4 => ~ model.training
    /\ ran >= 4 => DOMAIN TheFile.d = CheckpointKeys
    /\ ran = 4 => TheFile = DictFile(Checkpoint(SetMode(model, TRUE)))
    /\ ran = 5 => model.training

C28_Witness ==
    /\ ran = 5
    /\ outcome = Outcome("load_checkpoint", "ok", TRUE)
    /\ model.training
    /\ Updates(model) > 0

====
